---- MODULE Spec2Model ----
(***************************************************************************)
(* State-machine model of the yaya-frontend transaction dashboard:         *)
(*   - TransactionDashboard (src/src/components/TransactionDashboard.tsx): *)
(*     React state, the useDebounce timer, the mount and search effects,   *)
(*     handlePageChange, handleRetry and the asynchronous fetchTransactions*)
(*   - Pagination (same file): the page-number window                      *)
(*   - useDebounce (same file), also on its own in a host component        *)
(*   - useTransactions (src/src/hooks/useTransactions.ts)                  *)
(*   - isIncomingTransaction and the rows and cards rendered with it       *)
(*                                                                         *)
(* React 18 semantics: the state updates of one handler (or of one flush   *)
(* of passive effects) are batched into one commit; the effects whose      *)
(* dependencies changed in a commit run after it, before any other event:  *)
(* in the same step for a discrete user event (their flush is synchronous),*)
(* as the next step (RunEffects) after the first render, a timer callback  *)
(* or a response.                                                          *)
(***************************************************************************)
EXTENDS Integers, Sequences, FiniteSets, TLC

\* ---------------------------------------------------------------- bounds
\* longest prefix of Keys given to a stand-alone useDebounce
MaxLen == 3
\* longest prefix of Keys typed into the dashboard's search box
MaxQuery == 1
\* granularity of the clock, in ms
TickMs == 150
\* most requests awaiting their response at once
MaxInFlight == 2
\* the server's non-empty collection size
MaxTotal == 15
\* a page size the server may answer with besides the default one
OtherLimit == 20
\* largest totalPages / currentPage handed to a stand-alone Pagination
MaxTotalPages == 12
\* most transactions on a page whose rows are classified
MaxRows == 2

\* ------------------------------------------------------ program constants
DELAY == 300
DEFAULT_LIMIT == 10
maxVisiblePages == 5
ERROR_MESSAGE == "Failed to load transactions. Please check your connection and try again."
CURRENT_USER == "current_user"

\* JavaScript null (error state) and NaN (the result of a failed parseInt).
\* NaN is a number outside every range the model uses; comparisons with it
\* go through JsLt / JsGt, which are false on NaN as in JavaScript.
Null == "null"
NaN == -999999

JsLt(a, b) == a # NaN /\ b # NaN /\ a < b
JsGt(a, b) == a # NaN /\ b # NaN /\ a > b

Min(a, b) == IF a < b THEN a ELSE b
Max(a, b) == IF a > b THEN a ELSE b
\* half, rounded up
FloorHalf_Ceil(a) == (a + 1) \div 2
\* Math.floor(a / 2)
FloorHalf(a) == a \div 2
CeilDiv(a, b) == (a + b - 1) \div b

\* ---------------------------------------------------------------- strings
\* A string is a sequence of one-character strings.
Digits == <<"0", "1", "2", "3", "4", "5", "6", "7", "8", "9">>
IsDigit(c) == \E d \in 1..10 : Digits[d] = c
DigitVal(c) == (CHOOSE d \in 1..10 : Digits[d] = c) - 1

RECURSIVE SkipWs(_)
SkipWs(s) == IF s # <<>> /\ Head(s) = " " THEN SkipWs(Tail(s)) ELSE s

RECURSIVE ParseDigits(_, _)
ParseDigits(s, acc) ==
    IF s # <<>> /\ IsDigit(Head(s))
    THEN ParseDigits(Tail(s), acc * 10 + DigitVal(Head(s)))
    ELSE acc

\* parseInt(str, 10): leading white space, an optional sign, then the longest
\* run of decimal digits; NaN when there is no digit.
ParseInt(str) ==
    LET s == SkipWs(str)
        signed == s # <<>> /\ Head(s) \in {"-", "+"}
        neg == s # <<>> /\ Head(s) = "-"
        body == IF signed THEN Tail(s) ELSE s
    IN  IF body = <<>> \/ ~IsDigit(Head(body))
        THEN NaN
        ELSE IF neg THEN 0 - ParseDigits(body, 0) ELSE ParseDigits(body, 0)

RECURSIVE NatToString(_)
NatToString(n) ==
    IF n < 10 THEN <<Digits[n + 1]>>
    ELSE NatToString(n \div 10) \o <<Digits[(n % 10) + 1]>>

\* Number.prototype.toString()
NumberToString(n) ==
    IF n = NaN THEN <<"N", "a", "N">>
    ELSE IF n < 0 THEN <<"-">> \o NatToString(0 - n)
    ELSE NatToString(n)

RECURSIVE TrimEnd(_)
TrimEnd(s) ==
    IF s # <<>> /\ s[Len(s)] = " " THEN TrimEnd(SubSeq(s, 1, Len(s) - 1)) ELSE s

\* a trim that returns its argument
Trim_Identity(s) == s

\* String.prototype.trim()
Trim(s) == TrimEnd(SkipWs(s))

\* ------------------------------------------------------------- variables
VARIABLES
    component,       \* which unit is instantiated
    transactions, pagination, summaryStats, searchQuery, isLoading, error,
    debouncedValue,  \* useDebounce's state
    timers,          \* the pending setTimeout callbacks of useDebounce
    handler,         \* id of the timer created by the latest run of its effect
    urlP,            \* query parameter p of window.location: <<>> or <<string>>
    inflight,        \* requests awaiting their response, in issue order
    pending,         \* effects whose dependencies changed in the last commit
    sinceChange,     \* ms since searchQuery last changed (capped at DELAY)
    trace,           \* the last handler run, then the calls it made
    emits,           \* timer callbacks run since searchQuery last changed
    burst,           \* stand-alone useDebounce: changes of the value in the
                     \* current burst, each less than DELAY after the one
                     \* before and with no callback in between
    reloaded,        \* the page N > 1 the URL named at load, while there has been
                     \* no user input and no failed request since; else 0
    overtaken,       \* since the oldest request in flight became the oldest, a
                     \* request issued after it has been answered
    late,            \* the step just taken applied the response of an overtaken
                     \* request
    hook, hookInflight,       \* state of useTransactions and its requests
    pgCurrent, pgTotal, pages, \* props and page list of a stand-alone Pagination
    rows,            \* the isIncoming prop of each rendered transaction row
    incomingCount, outgoingCount \* the "Incoming / Outgoing (This Page)" cards

dashVars == <<transactions, pagination, summaryStats, searchQuery, isLoading,
              error, debouncedValue, timers, handler, urlP, inflight, pending,
              sinceChange>>
ghostVars == <<trace, emits, burst, reloaded, overtaken, late>>
hookVars == <<hook, hookInflight>>
pgVars == <<pgCurrent, pgTotal, pages>>
rowVars == <<rows, incomingCount, outgoingCount>>
vars == <<component, dashVars, ghostVars, hookVars, pgVars, rowVars>>

\* ----------------------------------------------------------------- inputs
Keys == <<"a", "b", "c", " ", "d">>
\* what is typed into the dashboard's search box: text between spaces, only a
\* space
Typed == <<<<" ", "a", " ">>, <<" ">>>>
\* the values of the raw input: prefixes of Keys for a stand-alone useDebounce,
\* the empty box and the first MaxQuery of Typed for the dashboard
RawValues ==
    IF component = "useDebounce"
    THEN {SubSeq(Keys, 1, n) : n \in 0..MaxLen}
    ELSE {<<>>} \cup {Typed[n] : n \in 1..Min(MaxQuery, Len(Typed))}
\* the query argument of the hook's fetchTransactions
HookQueries == {<<>>, <<" ">>, <<" ", " ">>, <<"a">>, <<" ", "a", " ">>}

\* the query parameter p when the page is loaded
InitialParams ==
    {<<>>, <<<<>>>>, <<<<"a", "b", "c">>>>, <<<<"0">>>>, <<<<"2">>>>}

Tx1 == [id |-> "t1", sender |-> "alice", receiver |-> CURRENT_USER, is_topup |-> FALSE]
Tx2 == [id |-> "t2", sender |-> CURRENT_USER, receiver |-> "bob", is_topup |-> FALSE]

\* the accounts and the transactions a page may hold
Accounts == {CURRENT_USER, "alice", "bob"}
Transactions ==
    {[id |-> "t", sender |-> snd, receiver |-> rcv, is_topup |-> top] :
        snd \in Accounts, rcv \in Accounts, top \in BOOLEAN}
TransactionPages ==
    UNION {[1..n -> Transactions] : n \in 0..MaxRows}

Limits == {DEFAULT_LIMIT, OtherLimit}
Totals == {0, MaxTotal}
\* the argument of a page-change request
PageArgs == 0..(CeilDiv(MaxTotal, DEFAULT_LIMIT) + 1)

\* The server: pagination metadata with totalPages = ceil(total / limit) and a
\* page in [1, max(totalPages, 1)] (the requested one when that is in range);
\* data and sums are present iff the collection is not empty.
ServerResponses(req) ==
    { [data |-> IF t = 0 THEN <<>> ELSE <<Tx1, Tx2>>,
       pagination |-> [page |-> p, limit |-> l, total |-> t,
                       totalPages |-> CeilDiv(t, l)],
       incomingSum |-> IF t = 0 THEN <<>> ELSE <<7>>,
       outgoingSum |-> IF t = 0 THEN <<>> ELSE <<3>>] :
      <<l, t, p>> \in
        { x \in Limits \X Totals \X (1..CeilDiv(MaxTotal, DEFAULT_LIMIT)) :
            /\ x[3] <= Max(CeilDiv(x[2], x[1]), 1)
            /\ (req.page \in 1..Max(CeilDiv(x[2], x[1]), 1) => x[3] = req.page) } }

\* x || 0 for an optional number
OrZero(opt) == IF opt = <<>> THEN 0 ELSE opt[1]

RemoveAt(s, i) == SubSeq(s, 1, i - 1) \o SubSeq(s, i + 1, Len(s))

\* ------------------------------------------------------- fetchTransactions
\* the request built from (page, query) with the limit captured by the closure
Request(page, query, limit) ==
    IF Trim(query) # <<>>
    THEN [method |-> "POST", path |-> "/api/transactions/search",
          page |-> page, limit |-> limit, body |-> <<Trim(query)>>]
    ELSE [method |-> "GET", path |-> "/api/transactions",
          page |-> page, limit |-> limit, body |-> <<>>]

\* the synchronous part of the calls fetchTransactions(...) that issue reqs:
\* setIsLoading(true); setError(null); fetch(url, options)
Issue(reqs) ==
    /\ inflight' = inflight \o reqs
    /\ isLoading' = (reqs # <<>> \/ isLoading)
    /\ error' = IF reqs # <<>> THEN Null ELSE error

\* a catch branch that resets the page but keeps the totals
FailurePagination_KeepsTotals == [pagination EXCEPT !.page = 1]

\* the state set by the catch branch
FailurePagination == [page |-> 1, limit |-> DEFAULT_LIMIT, total |-> 0, totalPages |-> 0]

\* --------------------------------------------------------------- effects
\* the effects of the instantiated component
Effects ==
    IF component = "TransactionDashboard" THEN {"debounce", "mount", "search"}
    ELSE IF component = "useDebounce" THEN {"debounce"}
    ELSE {}

\* the effects that re-run after a commit, by their dependency arrays
EffectsAfter(q, q2, d, d2, l, l2) ==
    Effects \cap
      ((IF q2 # q THEN {"debounce", "search"} ELSE {})
        \cup (IF d2 # d THEN {"search"} ELSE {})
        \cup (IF l2 # l THEN {"mount", "search"} ELSE {}))

\* p is present and is the decimal numeral of an integer >= 1
IsPageNumber(p) ==
    /\ p # <<>>
    /\ p[1] # <<>>
    /\ \A i \in 1..Len(p[1]) : IsDigit(p[1][i])
    /\ ParseDigits(p[1], 0) >= 1

\* const initialPage = pageParam ? parseInt(pageParam, 10) : 1
InitialPage(p) == IF p # <<>> /\ p[1] # <<>> THEN ParseInt(p[1]) ELSE 1

\* a search effect without its early return
SearchEffectReturns_Never(q) == FALSE

\* if (debouncedSearchQuery !== searchQuery) return
SearchEffectReturns(q) == debouncedValue # q

\* page set and requested by the search effect
SearchEffectPage == 1

\* number of requests the effects in eff will issue, given the values they see
FetchesOf(eff, d, q) ==
    (IF "mount" \in eff THEN 1 ELSE 0) + (IF "search" \in eff /\ d = q THEN 1 ELSE 0)

\* a cleanup that leaves the timer pending
ClearTimeout_Leaves(ts, h) == ts

\* return () => clearTimeout(handler)
ClearTimeout(ts, h) == {t \in ts : t.id # h}
FreeId(ts) == CHOOSE i \in 1..(Cardinality(ts) + 1) :
                 /\ \A t \in ts : t.id # i
                 /\ \A j \in 1..(i - 1) : \E t \in ts : t.id = j
\* a timer scheduled with no delay
SetTimeout_ZeroDelay(ts, value, delay) ==
    ts \cup {[id |-> FreeId(ts), value |-> value, remaining |-> 0]}

\* setTimeout(() => setDebouncedValue(value), delay)
SetTimeout(ts, value, delay) ==
    ts \cup {[id |-> FreeId(ts), value |-> value, remaining |-> delay]}

\* ------------------------------------------------------- classification
\* incoming: the receiver account is the current user, or it is a top-up
isIncomingTransaction(transaction, currentUser) ==
    \/ transaction.receiver = currentUser
    \/ transaction.is_topup
    \/ transaction.sender = transaction.receiver

\* ---------------------------------------------------------- Pagination
\* PageWindow without the left shift of a window cut short at totalPages
PageWindow_NoShift(currentPage, totalPages) ==
    LET startPage == Max(1, currentPage - FloorHalf(maxVisiblePages))
        endPage == Min(totalPages, startPage + maxVisiblePages - 1)
    IN  [i \in 1..Max(0, endPage - startPage + 1) |-> startPage + i - 1]

\* the page numbers rendered by Pagination
PageWindow(currentPage, totalPages) ==
    LET startPage0 == Max(1, currentPage - FloorHalf(maxVisiblePages))
        endPage == Min(totalPages, startPage0 + maxVisiblePages - 1)
        startPage == IF endPage - startPage0 + 1 < maxVisiblePages
                     THEN Max(1, endPage - maxVisiblePages + 1)
                     ELSE startPage0
    IN  [i \in 1..Max(0, endPage - startPage + 1) |-> startPage + i - 1]

\* -------------------------------------------------------------------- Init
\* useState initial values of TransactionDashboard
DashboardState ==
    /\ transactions = <<>>
    /\ pagination = [page |-> 1, limit |-> DEFAULT_LIMIT, total |-> 0, totalPages |-> 0]
    /\ summaryStats = [incomingSum |-> 0, outgoingSum |-> 0]
    /\ searchQuery = <<>>
    /\ isLoading = TRUE
    /\ error = Null
    /\ debouncedValue = <<>>
    /\ timers = {}
    /\ handler = 0
    /\ inflight = <<>>
    /\ sinceChange = 0

\* useState initial values of useTransactions(initialPage)
HookState(initialPage) ==
    /\ hook = [transactions |-> <<>>,
               pagination |-> [page |-> initialPage, limit |-> DEFAULT_LIMIT,
                               total |-> 0, totalPages |-> 0],
               isLoading |-> TRUE, error |-> Null]
    /\ hookInflight = <<>>

NoPagination == pgCurrent = 1 /\ pgTotal = 0 /\ pages = <<>>
NoRows == rows = <<>> /\ incomingCount = 0 /\ outgoingCount = 0

\* the dashboard after its first render, before its effects have run
InitDashboard ==
    /\ component = "TransactionDashboard"
    /\ DashboardState
    /\ urlP \in InitialParams
    /\ pending = {"debounce", "mount", "search"}
    /\ HookState(1)
    /\ NoPagination
    /\ NoRows
    /\ trace = <<>>
    /\ emits = 0
    /\ burst = 0
    /\ reloaded = IF IsPageNumber(urlP) /\ InitialPage(urlP) > 1 THEN InitialPage(urlP) ELSE 0
    /\ overtaken = FALSE
    /\ late = FALSE

\* a component that uses the hook, after its first render
InitHook ==
    /\ component = "useTransactions"
    /\ \E initialPage \in 1..2 : HookState(initialPage)
    /\ DashboardState
    /\ urlP = <<>>
    /\ pending = {}
    /\ NoPagination
    /\ NoRows
    /\ trace = <<>>
    /\ emits = 0
    /\ burst = 0
    /\ reloaded = 0
    /\ overtaken = FALSE
    /\ late = FALSE

Init == InitDashboard \/ InitHook

\* a host component that only calls useDebounce(value, DELAY), after its first
\* render; searchQuery is its value
InitDebounce ==
    /\ component = "useDebounce"
    /\ DashboardState
    /\ urlP = <<>>
    /\ pending = {"debounce"}
    /\ HookState(1)
    /\ NoPagination
    /\ NoRows
    /\ trace = <<>>
    /\ emits = 0
    /\ burst = 0
    /\ reloaded = 0
    /\ overtaken = FALSE
    /\ late = FALSE

\* a Pagination given arbitrary props, before it has rendered
InitPagination ==
    /\ component = "Pagination"
    /\ pgCurrent \in 0..(MaxTotalPages + 1)
    /\ pgTotal \in 0..MaxTotalPages
    /\ pages = <<>>
    /\ NoRows
    /\ DashboardState
    /\ urlP = <<>>
    /\ pending = {}
    /\ HookState(1)
    /\ trace = <<>>
    /\ emits = 0
    /\ burst = 0
    /\ reloaded = 0
    /\ overtaken = FALSE
    /\ late = FALSE

\* the transaction list of a loaded page, before its rows are rendered
InitRows ==
    /\ component = "TransactionRows"
    /\ transactions \in TransactionPages
    /\ pagination = [page |-> 1, limit |-> DEFAULT_LIMIT,
                     total |-> Len(transactions), totalPages |-> 1]
    /\ summaryStats = [incomingSum |-> 0, outgoingSum |-> 0]
    /\ searchQuery = <<>>
    /\ isLoading = FALSE
    /\ error = Null
    /\ debouncedValue = <<>>
    /\ timers = {}
    /\ handler = 0
    /\ inflight = <<>>
    /\ sinceChange = 0
    /\ urlP = <<>>
    /\ pending = {}
    /\ HookState(1)
    /\ NoPagination
    /\ NoRows
    /\ trace = <<>>
    /\ emits = 0
    /\ burst = 0
    /\ reloaded = 0
    /\ overtaken = FALSE
    /\ late = FALSE

\* ----------------------------------------------------------------- actions
Dashboard == component = "TransactionDashboard"
Debounced == component \in {"TransactionDashboard", "useDebounce"}
Idle == Debounced /\ pending = {}
Room(n) == Len(inflight) + n <= MaxInFlight

\* One flush of the passive effects in eff, in hook order: the useDebounce
\* effect, the mount effect, the search effect, with q the searchQuery of the
\* render they belong to; first names the step in trace.
Flush(first, eff, q) ==
    LET runDebounce == "debounce" \in eff
        runMount == "mount" \in eff
        runSearch == "search" \in eff /\ ~SearchEffectReturns(q)
        initialPage == InitialPage(urlP)
        page1 == IF runMount THEN initialPage ELSE pagination.page
        page2 == IF runSearch THEN SearchEffectPage ELSE page1
        reqs == (IF runMount
                 THEN <<Request(initialPage, <<>>, pagination.limit)>>
                 ELSE <<>>)
                \o (IF runSearch
                    THEN <<Request(SearchEffectPage, debouncedValue, pagination.limit)>>
                    ELSE <<>>)
        cleared == ClearTimeout(timers, handler)
    IN  /\ Room(Len(reqs))
        /\ timers' = IF runDebounce THEN SetTimeout(cleared, q, DELAY) ELSE timers
        /\ handler' = IF runDebounce THEN FreeId(cleared) ELSE handler
        /\ pagination' = [pagination EXCEPT !.page = page2]
        /\ urlP' = IF runSearch THEN <<NumberToString(SearchEffectPage)>> ELSE urlP
        /\ Issue(reqs)
        /\ trace' = first
             \o (IF runDebounce THEN <<"clearTimeout", "setTimeout">> ELSE <<>>)
             \o (IF runMount THEN <<"mount:setPagination", "mount:fetchTransactions">> ELSE <<>>)
             \o (IF runSearch
                 THEN <<"search:setPagination", "search:replaceState", "search:fetchTransactions">>
                 ELSE <<>>)
        /\ pending' = {}

\* the effects left pending by the first render, a timer callback or a
\* response run
RunEffects ==
    /\ Debounced
    /\ pending # {}
    /\ Flush(<<"effects">>, pending, searchQuery)
    /\ late' = FALSE
    /\ UNCHANGED <<component, transactions, summaryStats, searchQuery, debouncedValue,
                   sinceChange, emits, burst, reloaded, overtaken, hookVars, pgVars, rowVars>>

\* onChange of the search box: setSearchQuery(e.target.value). The effects of a
\* discrete event are flushed with its commit: the useDebounce effect and the
\* search effect run in the same step.
SetSearchQuery(v) ==
    /\ Idle
    /\ v # searchQuery
    /\ searchQuery' = v
    /\ sinceChange' = 0
    /\ Flush(<<"setSearchQuery">>,
             EffectsAfter(searchQuery, v, debouncedValue, debouncedValue,
                          pagination.limit, pagination.limit),
             v)
    /\ emits' = 0
    /\ burst' = IF component # "useDebounce" THEN burst
                 ELSE IF emits > 0 \/ sinceChange >= DELAY THEN 1
                 ELSE Min(burst + 1, MaxLen)
    /\ reloaded' = 0
    /\ late' = FALSE
    /\ UNCHANGED <<component, transactions, summaryStats, debouncedValue,
                   overtaken, hookVars, pgVars, rowVars>>

\* TickMs of time pass
Tick ==
    /\ Idle
    /\ \/ sinceChange < DELAY
       \/ \E t \in timers : t.remaining > 0
    /\ timers' = {[t EXCEPT !.remaining = Max(0, t.remaining - TickMs)] : t \in timers}
    /\ sinceChange' = Min(DELAY, sinceChange + TickMs)
    /\ UNCHANGED <<component, transactions, pagination, summaryStats, searchQuery, isLoading,
                   error, debouncedValue, handler, urlP, inflight, pending,
                   ghostVars, hookVars, pgVars, rowVars>>

\* a due timer runs its callback: setDebouncedValue(value)
TimerFires(t) ==
    /\ Idle
    /\ t \in timers
    /\ t.remaining = 0
    /\ Room(FetchesOf(EffectsAfter(searchQuery, searchQuery, debouncedValue, t.value,
                                   pagination.limit, pagination.limit),
                      t.value, searchQuery))
    /\ timers' = timers \ {t}
    /\ debouncedValue' = t.value
    /\ pending' = EffectsAfter(searchQuery, searchQuery, debouncedValue, t.value,
                               pagination.limit, pagination.limit)
    /\ trace' = <<"timer", "setDebouncedValue">>
    /\ emits' = Min(emits + 1, 2)
    /\ UNCHANGED <<burst, reloaded, overtaken>>
    /\ late' = FALSE
    /\ UNCHANGED <<component, transactions, pagination, summaryStats, searchQuery, isLoading,
                   error, handler, urlP, inflight, sinceChange, hookVars, pgVars, rowVars>>

\* PageChangeRejected without the isLoading test
PageChangeRejected_IgnoresLoading(newPage) ==
    JsLt(newPage, 1) \/ JsGt(newPage, pagination.totalPages)

\* if (newPage < 1 || newPage > pagination.totalPages || isLoading) return
PageChangeRejected(newPage) ==
    JsLt(newPage, 1) \/ JsGt(newPage, pagination.totalPages) \/ isLoading

\* a page change that sends the raw search box content
PageChangeQuery_Raw == searchQuery

\* the query argument of handlePageChange's fetchTransactions call
PageChangeQuery == debouncedValue

\* the calls of an accepted handlePageChange, in program order
PageChangeCalls == <<"setPagination", "replaceState", "fetchTransactions">>

HandlePageChange(newPage) ==
    /\ Dashboard
    /\ Idle
    /\ IF PageChangeRejected(newPage)
       THEN /\ trace' = <<"handlePageChange">>
            /\ UNCHANGED dashVars
       ELSE /\ Room(1)
            /\ pagination' = [pagination EXCEPT !.page = newPage]
            /\ urlP' = <<NumberToString(newPage)>>
            /\ Issue(<<Request(newPage, PageChangeQuery, pagination.limit)>>)
            /\ trace' = <<"handlePageChange">> \o PageChangeCalls
            /\ UNCHANGED <<transactions, summaryStats, searchQuery, debouncedValue,
                           timers, handler, pending, sinceChange>>
    /\ reloaded' = 0
    /\ late' = FALSE
    /\ UNCHANGED <<component, emits, burst, overtaken, hookVars, pgVars, rowVars>>

\* a retry that goes back to the page named by the URL
RetryPage_FromUrl == InitialPage(urlP)

\* the page argument of handleRetry's fetchTransactions call
RetryPage == pagination.page

\* the retry button of the error message
HandleRetry ==
    /\ Dashboard
    /\ Idle
    /\ error # Null
    /\ Room(1)
    /\ Issue(<<Request(RetryPage, debouncedValue, pagination.limit)>>)
    /\ trace' = <<"handleRetry", "fetchTransactions">>
    /\ reloaded' = 0
    /\ late' = FALSE
    /\ UNCHANGED <<component, transactions, pagination, summaryStats, searchQuery,
                   debouncedValue, timers, handler, urlP, pending, sinceChange,
                   emits, burst, overtaken, hookVars, pgVars, rowVars>>

\* once request i has been answered: the oldest request stays behind, overtaken,
\* unless it is request i itself
OvertakenAfter(i) == i > 1

\* a success branch that leaves the pagination state alone
Applied_KeepsPagination(resp) ==
    [transactions |-> resp.data,
     pagination |-> pagination,
     summaryStats |-> [incomingSum |-> OrZero(resp.incomingSum),
                       outgoingSum |-> OrZero(resp.outgoingSum)]]

\* the state set by the success branch from the parsed body
Applied(resp) ==
    [transactions |-> resp.data,
     pagination |-> resp.pagination,
     summaryStats |-> [incomingSum |-> OrZero(resp.incomingSum),
                       outgoingSum |-> OrZero(resp.outgoingSum)]]

\* the response of request i arrives with response.ok and a JSON body; whatever
\* was issued or answered since the request was made, its data is applied
FetchSucceeds(i, resp) ==
    /\ Dashboard
    /\ Idle
    /\ i \in 1..Len(inflight)
    /\ resp \in ServerResponses(inflight[i])
    /\ LET eff == EffectsAfter(searchQuery, searchQuery, debouncedValue, debouncedValue,
                               pagination.limit, Applied(resp).pagination.limit)
       IN  /\ Len(inflight) - 1 + FetchesOf(eff, debouncedValue, searchQuery) <= MaxInFlight
           /\ pending' = eff
    /\ inflight' = RemoveAt(inflight, i)
    /\ transactions' = Applied(resp).transactions
    /\ pagination' = Applied(resp).pagination
    /\ summaryStats' = Applied(resp).summaryStats
    /\ isLoading' = FALSE
    /\ overtaken' = OvertakenAfter(i)
    /\ late' = (i = 1 /\ overtaken)
    /\ trace' = <<"response", "setTransactions", "setPagination", "setSummaryStats", "setIsLoading">>
    /\ UNCHANGED <<component, searchQuery, error, debouncedValue, timers, handler, urlP,
                   sinceChange, emits, burst, reloaded, hookVars, pgVars, rowVars>>

\* request i fails: fetch rejects, the response is not ok, or its body is not
\* JSON; each throws into the catch branch
FetchFails(i) ==
    /\ Dashboard
    /\ Idle
    /\ i \in 1..Len(inflight)
    /\ LET eff == EffectsAfter(searchQuery, searchQuery, debouncedValue, debouncedValue,
                               pagination.limit, FailurePagination.limit)
       IN  /\ Len(inflight) - 1 + FetchesOf(eff, debouncedValue, searchQuery) <= MaxInFlight
           /\ pending' = eff
    /\ inflight' = RemoveAt(inflight, i)
    /\ error' = ERROR_MESSAGE
    /\ transactions' = <<>>
    /\ pagination' = FailurePagination
    /\ summaryStats' = [incomingSum |-> 0, outgoingSum |-> 0]
    /\ isLoading' = FALSE
    /\ trace' = <<"failure", "setError", "setTransactions", "setPagination",
                  "setSummaryStats", "setIsLoading">>
    /\ reloaded' = 0
    /\ overtaken' = OvertakenAfter(i)
    /\ late' = (i = 1 /\ overtaken)
    /\ UNCHANGED <<component, searchQuery, debouncedValue, timers, handler, urlP,
                   sinceChange, emits, burst, hookVars, pgVars, rowVars>>

\* ------------------------------------------------------- useTransactions
Hook == component = "useTransactions"

\* fetchTransactions(page, query) of the hook, up to its await
HookFetchTransactions(page, query) ==
    /\ Hook
    /\ Len(hookInflight) < MaxInFlight
    /\ hook' = [hook EXCEPT !.isLoading = TRUE, !.error = Null]
    /\ hookInflight' = Append(hookInflight, Request(page, query, hook.pagination.limit))
    /\ trace' = <<"hook:fetchTransactions">>
    /\ UNCHANGED <<component, dashVars, emits, burst, reloaded, overtaken, late, pgVars, rowVars>>

HookSucceeds(i, resp) ==
    /\ Hook
    /\ i \in 1..Len(hookInflight)
    /\ resp \in ServerResponses(hookInflight[i])
    /\ hookInflight' = RemoveAt(hookInflight, i)
    /\ hook' = [hook EXCEPT !.transactions = resp.data,
                            !.pagination = resp.pagination,
                            !.isLoading = FALSE]
    /\ trace' = <<"hook:response">>
    /\ UNCHANGED <<component, dashVars, emits, burst, reloaded, overtaken, late, pgVars, rowVars>>

\* the state set by the hook's catch branch
HookFailurePagination(prev) == [prev EXCEPT !.total = 0, !.totalPages = 0]

HookFails(i) ==
    /\ Hook
    /\ i \in 1..Len(hookInflight)
    /\ hookInflight' = RemoveAt(hookInflight, i)
    /\ hook' = [hook EXCEPT !.error = ERROR_MESSAGE,
                            !.transactions = <<>>,
                            !.pagination = HookFailurePagination(hook.pagination),
                            !.isLoading = FALSE]
    /\ trace' = <<"hook:failure">>
    /\ UNCHANGED <<component, dashVars, emits, burst, reloaded, overtaken, late, pgVars, rowVars>>

\* the exported setPagination, used to move to a page
HookSetPagination(page) ==
    /\ Hook
    /\ page # hook.pagination.page
    /\ hook' = [hook EXCEPT !.pagination = [hook.pagination EXCEPT !.page = page]]
    /\ trace' = <<"hook:setPagination">>
    /\ UNCHANGED <<component, dashVars, emits, burst, reloaded, overtaken, late, hookInflight, pgVars, rowVars>>

Next ==
    \/ RunEffects
    \/ \E v \in RawValues : SetSearchQuery(v)
    \/ Tick
    \/ \E t \in timers : TimerFires(t)
    \/ \E newPage \in PageArgs : HandlePageChange(newPage)
    \/ HandleRetry
    \/ \E i \in 1..Len(inflight) : \E resp \in ServerResponses(inflight[i]) : FetchSucceeds(i, resp)
    \/ \E i \in 1..Len(inflight) : FetchFails(i)
    \/ \E page \in 1..2 : \E query \in HookQueries : HookFetchTransactions(page, query)
    \/ \E i \in 1..Len(hookInflight) : \E resp \in ServerResponses(hookInflight[i]) : HookSucceeds(i, resp)
    \/ \E i \in 1..Len(hookInflight) : HookFails(i)
    \/ \E page \in 1..2 : HookSetPagination(page)

Spec == Init /\ [][Next]_vars

\* The dashboard left alone by the user: only effects, the clock, the timer and
\* the responses run.
\* the request issued first among those in flight is answered
RespondOldest ==
    \/ \E resp \in ServerResponses(inflight[1]) : FetchSucceeds(1, resp)
    \/ FetchFails(1)

NextQuiet ==
    \/ RunEffects
    \/ Tick
    \/ \E t \in timers : TimerFires(t)
    \/ \E i \in 1..Len(inflight) : \E resp \in ServerResponses(inflight[i]) : FetchSucceeds(i, resp)
    \/ \E i \in 1..Len(inflight) : FetchFails(i)

\* React flushes pending effects, time passes, a due timer runs its callback,
\* and every request is answered: the oldest one in flight always is, in the end
QuietFairness ==
    /\ WF_vars(RunEffects)
    /\ WF_vars(Tick)
    /\ WF_vars(\E t \in timers : TimerFires(t))
    /\ WF_vars(inflight # <<>> /\ RespondOldest)

SpecQuiet == InitDashboard /\ [][NextQuiet]_vars /\ QuietFairness

NextDebounce ==
    \/ RunEffects
    \/ \E v \in RawValues : SetSearchQuery(v)
    \/ Tick
    \/ \E t \in timers : TimerFires(t)

SpecDebounce == InitDebounce /\ [][NextDebounce]_vars

\* Pagination renders: the body of the component computes pages
PaginationRender ==
    /\ component = "Pagination"
    /\ trace = <<>>
    /\ pages' = PageWindow(pgCurrent, pgTotal)
    /\ trace' = <<"Pagination">>
    /\ UNCHANGED <<component, dashVars, emits, burst, reloaded, overtaken, late, hookVars, pgCurrent, pgTotal, rowVars>>

\* the targets of the enabled buttons: previous, the page numbers, next
PaginationTargets ==
    (IF pgCurrent <= 1 THEN {} ELSE {pgCurrent - 1})
      \cup {pages[i] : i \in 1..Len(pages)}
      \cup (IF pgCurrent >= pgTotal THEN {} ELSE {pgCurrent + 1})

\* a button is clicked; the parent passes the page back as currentPage and
\* Pagination renders again
PaginationClick(page) ==
    /\ component = "Pagination"
    /\ trace # <<>>
    /\ page \in PaginationTargets
    /\ pgCurrent' = page
    /\ pages' = PageWindow(page, pgTotal)
    /\ trace' = <<"Pagination", "onPageChange">>
    /\ UNCHANGED <<component, dashVars, emits, burst, reloaded, overtaken, late, hookVars, pgTotal, rowVars>>

\* the table body and the two "This Page" cards are rendered from transactions
RenderRows ==
    /\ component = "TransactionRows"
    /\ trace = <<>>
    /\ rows' = [i \in 1..Len(transactions) |->
                  isIncomingTransaction(transactions[i], CURRENT_USER)]
    /\ incomingCount' = Cardinality({i \in 1..Len(transactions) :
                          isIncomingTransaction(transactions[i], CURRENT_USER)})
    /\ outgoingCount' = Cardinality({i \in 1..Len(transactions) :
                          ~isIncomingTransaction(transactions[i], CURRENT_USER)})
    /\ trace' = <<"render">>
    /\ UNCHANGED <<component, dashVars, emits, burst, reloaded, overtaken, late,
                   hookVars, pgVars>>

NextRows == RenderRows

SpecRows == InitRows /\ [][NextRows]_vars

NextPagination ==
    \/ PaginationRender
    \/ \E page \in 0..(MaxTotalPages + 1) : PaginationClick(page)

SpecPagination == InitPagination /\ [][NextPagination]_vars

\* ------------------------------------------------------------------ claims

\* C1: for every totalPages >= 1 and currentPage in [1, totalPages], the page
\* window has exactly min(maxVisiblePages, totalPages) entries and contains
\* currentPage.
C1_WindowSizeAndMembership ==
    (component = "Pagination" /\ trace # <<>> /\ pgTotal >= 1 /\ pgCurrent \in 1..pgTotal)
        => /\ Len(pages) = Min(maxVisiblePages, pgTotal)
           /\ \E i \in 1..Len(pages) : pages[i] = pgCurrent

\* the last page of twelve: the window is cut at totalPages and start shifts left
C1_Witness ==
    /\ component = "Pagination"
    /\ trace # <<>>
    /\ pgTotal = 12
    /\ pgCurrent = 12
    /\ pages = <<8, 9, 10, 11, 12>>

\* C2: a page-change request whose target is < 1 or > pagination.totalPages, or
\* that arrives while isLoading, changes none of pagination, transactions,
\* error, isLoading, the URL parameter p, and issues no fetch.
C2_RejectedPageChangeIsNoOp ==
    [][\A n \in PageArgs :
         (HandlePageChange(n) /\ (n < 1 \/ n > pagination.totalPages \/ isLoading))
            => UNCHANGED <<pagination, transactions, error, isLoading, urlP, inflight,
                           summaryStats, pending>>]_vars

\* a request was rejected while a fetch was loading and pages existed
C2_Witness ==
    /\ Dashboard
    /\ trace = <<"handlePageChange">>
    /\ isLoading
    /\ pagination.totalPages >= 2
    /\ inflight # <<>>

\* C3: at most one fetch request of the dashboard is in flight at any time.
C3_AtMostOneInFlight == Dashboard => Len(inflight) <= 1

\* C4: the debounced value changes only when searchQuery has been unchanged for
\* at least DELAY ms, and then becomes the current searchQuery.
C4_DebouncedOnlyAfterDelay ==
    [][debouncedValue' # debouncedValue
         => (sinceChange >= DELAY /\ debouncedValue' = searchQuery)]_vars

\* the debounced value has just moved to a typed value
C4_Witness ==
    /\ component = "useDebounce"
    /\ trace = <<"timer", "setDebouncedValue">>
    /\ debouncedValue = <<"a", "b">>
    /\ searchQuery = <<"a", "b">>
    /\ sinceChange >= DELAY
    /\ timers = {}

\* C5: every change of searchQuery cancels the pending timer and schedules a
\* fresh one of DELAY ms, so at most one timer is pending; once the effects have
\* run, the pending timer is the one of the latest value, due DELAY after the
\* latest change, and a burst ends in exactly one callback, which sets the
\* debounced value to the final searchQuery.
C5_OneTimerOneEmission ==
    Debounced =>
        /\ Cardinality(timers) <= 1
        /\ emits <= 1
        /\ emits = 1 => debouncedValue = searchQuery
        /\ pending = {} =>
             /\ (timers = {}) <=> (emits = 1)
             /\ \A t \in timers : /\ t.value = searchQuery
                                  /\ t.remaining = DELAY - sinceChange

\* "a", "ab", "abc" typed less than DELAY apart, then one emission of "abc"
C5_Witness ==
    /\ component = "useDebounce"
    /\ burst = 3
    /\ emits = 1
    /\ timers = {}
    /\ searchQuery = <<"a", "b", "c">>
    /\ debouncedValue = <<"a", "b", "c">>
    /\ trace = <<"timer", "setDebouncedValue">>

\* C6: right after a failed fetch is handled, transactions = [], pagination.total
\* = 0, pagination.totalPages = 0, error is a non-empty message and isLoading is
\* false, in the dashboard and in the useTransactions hook.
C6_FailureClearsState ==
    /\ (Dashboard /\ trace # <<>> /\ trace[1] = "failure") =>
          /\ transactions = <<>>
          /\ pagination.total = 0
          /\ pagination.totalPages = 0
          /\ error \notin {Null, ""}
          /\ isLoading = FALSE
    /\ (Hook /\ trace = <<"hook:failure">>) =>
          /\ hook.transactions = <<>>
          /\ hook.pagination.total = 0
          /\ hook.pagination.totalPages = 0
          /\ hook.error \notin {Null, ""}
          /\ hook.isLoading = FALSE

\* a fetch of page 2 has failed in the dashboard
C6_Witness ==
    /\ Dashboard
    /\ trace # <<>>
    /\ trace[1] = "failure"
    /\ urlP = <<<<"2">>>>
    /\ error = ERROR_MESSAGE

\* C7: pagination.page lies in [1, max(pagination.totalPages, 1)] in every
\* reachable state of the dashboard.
C7_PageInRange ==
    Dashboard => pagination.page \in 1..Max(pagination.totalPages, 1)

\* C8: when p is present at load but is not a page number, the page put into
\* pagination state and requested by the mount effect is 1.
C8_MalformedPageDefaultsToOne ==
    [][(/\ Dashboard
        /\ pending = {"debounce", "mount", "search"}
        /\ urlP # <<>>
        /\ ~IsPageNumber(urlP)
        /\ pending' = {})
          => /\ pagination'.page = 1
             /\ inflight'[Len(inflight) + 1].page = 1]_vars

\* C9: loaded with p = N > 1 and with no user input, page N is requested, and
\* once the fetches issued at mount have all succeeded pagination.page = N and
\* the URL parameter p is still N.
C9_UrlPagePersistsAcrossReload ==
    (Dashboard /\ reloaded > 1 /\ pending = {}) =>
        /\ inflight = <<>> =>
             /\ pagination.page = reloaded
             /\ urlP = <<NumberToString(reloaded)>>
        /\ trace # <<>> /\ trace[1] = "effects" =>
             \E i \in 1..Len(inflight) : inflight[i].page = reloaded

\* C10: an accepted page change sets pagination.page to newPage, writes newPage
\* into the URL parameter p and issues exactly one fetch, for (newPage, settled
\* search query), in that order, in one event.
C10_AcceptedPageChange ==
    [][\A n \in PageArgs :
         (HandlePageChange(n) /\ n >= 1 /\ n <= pagination.totalPages /\ ~isLoading)
            => /\ pagination' = [pagination EXCEPT !.page = n]
               /\ urlP' = <<NumberToString(n)>>
               /\ inflight' = Append(inflight, Request(n, debouncedValue, pagination.limit))
               /\ isLoading'
               /\ trace' = <<"handlePageChange", "setPagination", "replaceState",
                             "fetchTransactions">>]_vars

\* page 2 was requested while the search " a " is settled and the box has just
\* been cleared
C10_Witness ==
    /\ Dashboard
    /\ trace = <<"handlePageChange", "setPagination", "replaceState", "fetchTransactions">>
    /\ pagination.page = 2
    /\ urlP = <<<<"2">>>>
    /\ debouncedValue = <<" ", "a", " ">>
    /\ searchQuery = <<>>
    /\ Len(inflight) = 1
    /\ inflight[Len(inflight)].method = "POST"
    /\ inflight[Len(inflight)].body = <<<<"a">>>>

\* C11: whenever the dashboard has run its effects and no fetch is in flight, the
\* URL parameter p is the decimal numeral of pagination.page.
C11_UrlMatchesPage ==
    (Dashboard /\ Idle /\ inflight = <<>>) => urlP = <<NumberToString(pagination.page)>>

\* C12: requests are neither cancelled nor sequenced: the response of the oldest
\* request in flight, when a request issued after it has already been answered,
\* is applied like any other, so transactions, pagination and the sums become those
\* of the superseded request.
C12_SupersededResponseApplied ==
    [][(/\ Dashboard
        /\ late'
        /\ trace'[1] = "response"
        /\ ~UNCHANGED inflight)
          => /\ overtaken
             /\ inflight' = Tail(inflight)
             /\ \E resp \in ServerResponses(inflight[1]) :
                  /\ transactions' = resp.data
                  /\ pagination' = resp.pagination
                  /\ summaryStats' = [incomingSum |-> OrZero(resp.incomingSum),
                                      outgoingSum |-> OrZero(resp.outgoingSum)]]_vars

\* page 2 was requested, then the search " a " settled and requested page 1; the
\* search response came first and the page-2 response last: with nothing in
\* flight the dashboard shows page 2 of the unfiltered list under p = 1
C12_Witness ==
    /\ Dashboard
    /\ late
    /\ inflight = <<>>
    /\ trace # <<>> /\ trace[1] = "response"
    /\ debouncedValue # <<>>
    /\ searchQuery = debouncedValue
    /\ urlP = <<<<"1">>>>
    /\ pagination.page = 2
    /\ transactions # <<>>
    /\ error = Null

\* this step issued the fetch of the search effect
SearchFetched ==
    /\ Len(inflight') > Len(inflight)
    /\ \E k \in 1..Len(trace') : trace'[k] = "search:fetchTransactions"

\* C13: a step that makes the debounced value and the raw input equal either
\* runs the search effect or leaves it pending, and the flush of a pending
\* search effect with both equal runs it; a step that runs it sets
\* pagination.page to 1, writes p = 1 and issues, last, the request for
\* (page 1, trimmed raw input), the raw input being equal to the debounced value.
C13_SettledSearchFetchesPageOne ==
    [][Dashboard =>
         /\ (/\ debouncedValue' = searchQuery'
             /\ (debouncedValue' # debouncedValue \/ searchQuery' # searchQuery))
               => (SearchFetched \/ "search" \in pending')
         /\ ("search" \in pending /\ debouncedValue = searchQuery /\ pending' = {})
               => SearchFetched
         /\ SearchFetched =>
              LET r == inflight'[Len(inflight')]
              IN  /\ debouncedValue' = searchQuery'
                  /\ pagination'.page = 1
                  /\ urlP' = <<<<"1">>>>
                  /\ r.page = 1
                  /\ r.limit = pagination'.limit
                  /\ r.body = IF Trim(searchQuery') = <<>> THEN <<>>
                              ELSE <<Trim(searchQuery')>>]_vars

\* with two pages listed the typed search has settled: the commit of the timer
\* callback ran the search effect alone, which issued the search request for
\* page 1
C13_Witness ==
    /\ Dashboard
    /\ trace = <<"effects", "search:setPagination", "search:replaceState",
                 "search:fetchTransactions">>
    /\ debouncedValue # <<>>
    /\ debouncedValue = searchQuery
    /\ pagination.page = 1
    /\ pagination.totalPages = 2
    /\ urlP = <<<<"1">>>>
    /\ inflight # <<>>
    /\ inflight[Len(inflight)].method = "POST"
    /\ inflight[Len(inflight)].page = 1

\* C14: whenever the search effect issues a fetch because of what the user typed
\* (not in a flush that also runs the mount effect: the first render, or a
\* fetchTransactions re-created for a new limit), the raw search input has been
\* unchanged for at least DELAY ms.
C14_SearchFetchOnlyAfterDelay ==
    [][(/\ Dashboard
        /\ SearchFetched
        /\ \A k \in 1..Len(trace') : trace'[k] # "mount:fetchTransactions")
          => sinceChange' >= DELAY]_vars

\* C15: with totalPages = 12 a rendered Pagination lists 1..5 for currentPage = 1,
\* 8..12 for currentPage = 10 and 5..9 for currentPage = 7.
C15_WindowExamples ==
    (component = "Pagination" /\ trace # <<>> /\ pgTotal = 12) =>
        /\ pgCurrent = 1 => pages = <<1, 2, 3, 4, 5>>
        /\ pgCurrent = 10 => pages = <<8, 9, 10, 11, 12>>
        /\ pgCurrent = 7 => pages = <<5, 6, 7, 8, 9>>

\* page 7 of twelve was reached by a click and is listed in the middle
C15_Witness ==
    /\ component = "Pagination"
    /\ trace = <<"Pagination", "onPageChange">>
    /\ pgTotal = 12
    /\ pgCurrent = 7
    /\ pages = <<5, 6, 7, 8, 9>>

\* q consists of spaces only (or is empty)
IsBlank(q) == \A k \in 1..Len(q) : q[k] = " "

\* b is q without its leading and trailing spaces
IsTrimOf(b, q) ==
    /\ \E i \in 0..Len(q) :
         /\ i + Len(b) <= Len(q)
         /\ SubSeq(q, i + 1, i + Len(b)) = b
         /\ \A k \in (1..i) \cup ((i + Len(b) + 1)..Len(q)) : q[k] = " "
    /\ b # <<>> => (b[1] # " " /\ b[Len(b)] # " ")

\* r is the request the claim describes for fetchTransactions(page, query)
\* with the given limit
IsRequestFor(r, page, query, limit) ==
    /\ r.page = page
    /\ r.limit = limit
    /\ IF IsBlank(query)
       THEN r.method = "GET" /\ r.path = "/api/transactions" /\ r.body = <<>>
       ELSE /\ r.method = "POST"
            /\ r.path = "/api/transactions/search"
            /\ Len(r.body) = 1
            /\ r.body[1] # <<>>
            /\ IsTrimOf(r.body[1], query)

\* C16: every call fetchTransactions(page, query), of the hook and of the
\* dashboard (page change, retry, search effect), issues the GET list request
\* when query is empty or only spaces and otherwise the POST search request
\* whose body is query without its leading and trailing spaces; both carry page
\* and the current pagination.limit.
C16_RequestFromTrimmedQuery ==
    [][/\ (Hook /\ Len(hookInflight') > Len(hookInflight)) =>
            \A page \in 1..2 : \A query \in HookQueries :
               HookFetchTransactions(page, query)
                 => IsRequestFor(hookInflight'[Len(hookInflight')], page, query,
                                 hook.pagination.limit)
       /\ (Dashboard /\ Len(inflight') > Len(inflight)) =>
            /\ \A n \in PageArgs :
                 HandlePageChange(n)
                   => IsRequestFor(inflight'[Len(inflight')], n, debouncedValue,
                                   pagination.limit)
            /\ HandleRetry
                   => IsRequestFor(inflight'[Len(inflight')], pagination.page,
                                   debouncedValue, pagination.limit)
            /\ SearchFetched
                   => IsRequestFor(inflight'[Len(inflight')], 1, debouncedValue,
                                   pagination.limit)]_vars

\* a retry while the search " a " is settled issued the search request for "a"
C16_Witness ==
    /\ Dashboard
    /\ trace = <<"handleRetry", "fetchTransactions">>
    /\ debouncedValue = <<" ", "a", " ">>
    /\ inflight # <<>>
    /\ inflight[Len(inflight)].method = "POST"
    /\ inflight[Len(inflight)].body = <<<<"a">>>>
    /\ inflight[Len(inflight)].page = pagination.page
    /\ inflight[Len(inflight)].limit = pagination.limit

\* C17: a rendered transaction is shown as incoming exactly when the current
\* user is its receiver or its sender is its receiver, and the incoming and
\* outgoing counts of the page add up to the number of its transactions.
C17_IncomingIffReceiverOrSelf ==
    (component = "TransactionRows" /\ trace # <<>>) =>
        /\ Len(rows) = Len(transactions)
        /\ \A i \in 1..Len(rows) :
             rows[i] <=> (\/ transactions[i].receiver = CURRENT_USER
                          \/ transactions[i].sender = transactions[i].receiver)
        /\ incomingCount = Cardinality({i \in 1..Len(rows) : rows[i]})
        /\ outgoingCount = Cardinality({i \in 1..Len(rows) : ~rows[i]})
        /\ incomingCount + outgoingCount = Len(transactions)

\* C18: once the dashboard's effects have run, isLoading is true exactly when a
\* request is in flight.
C18_LoadingIffInFlight ==
    (Dashboard /\ trace # <<>>) => (isLoading <=> inflight # <<>>)

\* C19: whenever the dashboard holds an error and no request is in flight, the
\* transactions are empty, total and totalPages are 0 and both sums are 0.
C19_ErrorMeansCleared ==
    (Dashboard /\ error # Null /\ inflight = <<>>) =>
        /\ transactions = <<>>
        /\ pagination.total = 0
        /\ pagination.totalPages = 0
        /\ summaryStats = [incomingSum |-> 0, outgoingSum |-> 0]

\* C20: with no user input and every request answered, the dashboard eventually
\* stays in a state with no request in flight and isLoading false.
C20_EventuallyQuiet == <>[](inflight = <<>> /\ ~isLoading)

\* C21: a retry appends exactly one request, for (pagination.page, settled
\* search query) with the current limit, and changes neither pagination nor the
\* URL parameter p; taken right after the failure was handled it requests page 1,
\* whatever p reads.
C21_RetryFetchesCurrentPage ==
    [][(Dashboard /\ Len(inflight') > Len(inflight) /\ HandleRetry) =>
         /\ Len(inflight') = Len(inflight) + 1
         /\ SubSeq(inflight', 1, Len(inflight)) = inflight
         /\ IsRequestFor(inflight'[Len(inflight')], pagination.page, debouncedValue,
                         pagination.limit)
         /\ pagination' = pagination
         /\ urlP' = urlP
         /\ trace[1] = "failure" => inflight'[Len(inflight')].page = 1]_vars

\* the fetch of page 2 failed and the retry has requested page 1 while p reads 2
C21_Witness ==
    /\ Dashboard
    /\ trace = <<"handleRetry", "fetchTransactions">>
    /\ urlP = <<<<"2">>>>
    /\ pagination = FailurePagination
    /\ transactions = <<>>
    /\ Len(inflight) = 1
    /\ inflight[1].page = 1
    /\ isLoading
    /\ error = Null

====
